---- MODULE Spec2Model ----
(***************************************************************************)
(* A model of src/app.py: the CSV upload handler `convert`, the loader     *)
(* `read_csv_safely` with its encoding fallbacks, and the renderer         *)
(* `df_to_pdf_bytes` (cell escaping and column widths).                    *)
(*                                                                         *)
(* Three specifications share the module:                                  *)
(*   Spec        one request through convert / read_csv_safely             *)
(*   SpecEscape  the header and cell markup built by df_to_pdf_bytes       *)
(*   SpecWidths  the column widths computed by df_to_pdf_bytes             *)
(*                                                                         *)
(* Text is a sequence of one-character strings.  pd.read_csv, Paragraph    *)
(* and doc.build are library calls: what they return for a given stream    *)
(* is drawn from the outcomes they can have.                               *)
(***************************************************************************)
EXTENDS Integers, Sequences, FiniteSets, TLC

VARIABLES
    pc,             \* position of the request in convert / read_csv_safely
    filename,       \* None (no file part) or the uploaded file's name
    parse,          \* encoding -> what pd.read_csv makes of the stream under it
    nRows,          \* number of data rows the stream holds
    callerPos,      \* where the caller left the stream before read_csv_safely
    streamPos,      \* file_storage.stream position
    attempts,       \* the pd.read_csv calls made so far: encoding, start position, outcome
    df,             \* the table read_csv_safely holds / returned, or None
    raised,         \* the exception propagating out of read_csv_safely, or None
    renderCalls,    \* number of calls of df_to_pdf_bytes in this request
    pdf_bytes,      \* what df_to_pdf_bytes returned, or None
    flashed,        \* the messages flashed, in order
    response,       \* the response of convert, or None
    \* -- df_to_pdf_bytes, markup (SpecEscape)
    col,            \* a column name of the table
    val,            \* a data cell value of the table
    headerText,     \* markup handed to the header cell's Paragraph
    cellText,       \* markup handed to the data cell's Paragraph
    \* -- df_to_pdf_bytes, column widths (SpecWidths)
    landscape_mode, \* orientation flag
    plainLens,      \* len(h.getPlainText()) of each header, in column order
    total_len,      \* sum of the weights (line 94)
    col_widths      \* the widths, as numerators over WidthDen(total_len)

loadVars  == <<pc, filename, parse, nRows, callerPos, streamPos, attempts, df,
               raised, renderCalls, pdf_bytes, flashed, response>>
escVars   == <<col, val, headerText, cellText>>
widthVars == <<landscape_mode, plainLens, total_len, col_widths>>
vars      == <<loadVars, escVars, widthVars>>

None == [t |-> "None"]

Min(a, b) == IF a < b THEN a ELSE b
Max(a, b) == IF a > b THEN a ELSE b

(***************************************************************************)
(* Bounds of the model.                                                    *)
(***************************************************************************)
MaxPos      == 2    \* stream positions 0..MaxPos
ExtraRows   == 1000 \* the largest input holds MAX_ROWS + ExtraRows data rows

(***************************************************************************)
(* Program constants.                                                      *)
(***************************************************************************)
MAX_ROWS == 5000

MsgChoose  == "Please choose a CSV file."
MsgOnlyCsv == "Only .csv files are allowed."
MsgEmpty   == "Your CSV appears to be empty."
MsgSorry   == "Sorry, something went wrong while converting your file. Make sure it is a valid CSV."

\* for enc in ['utf-8', 'utf-16', 'cp1252', 'latin-1']
\* (LadderWrongOrder: the same encodings, tried in another order)
LadderWrongOrder == <<"latin-1", "cp1252", "utf-16", "utf-8">>
Ladder == <<"utf-8", "utf-16", "cp1252", "latin-1">>

\* pd.read_csv without an encoding argument ("default") decodes as UTF-8.
DefaultEncoding == "utf-8"
Codec(enc) == IF enc = "default" THEN DefaultEncoding ELSE enc

Encodings == {"utf-8", "utf-16", "cp1252", "latin-1"}

(***************************************************************************)
(* What pd.read_csv can make of a stream read from its start under one     *)
(* encoding: "ok" a table with the right columns and rows, "garbled" a     *)
(* table of text decoded under the wrong encoding (wrong cells, columns or *)
(* rows), "decode" a UnicodeDecodeError, "other" any other exception.      *)
(* The streams enumerated are those the decoders allow:                    *)
(*   - Latin-1 decodes every byte sequence;                                *)
(*   - UTF-8 is strict: a stream that decodes under it is UTF-8 text;      *)
(*   - cp1252 and Latin-1 differ only in bytes 0x80..0x9F, none of them a  *)
(*     delimiter, quote or line end: where cp1252 yields a table, Latin-1  *)
(*     yields a table of the same shape, and UTF-8 text read as Latin-1    *)
(*     keeps its shape too.                                                *)
(***************************************************************************)
Outcomes == {"ok", "garbled", "decode", "other"}
Succeeds(o) == o \in {"ok", "garbled"}
Parses ==
    {p \in [Encodings -> Outcomes] :
        /\ p["latin-1"] # "decode"
        /\ p["utf-8"] # "garbled"
        /\ Succeeds(p["cp1252"]) => p["latin-1"] = p["cp1252"]
        /\ p["utf-8"] = "ok" => p["latin-1"] = "ok"}

RowCounts == {0, 1, MAX_ROWS - 1, MAX_ROWS, MAX_ROWS + 1, MAX_ROWS + ExtraRows}

\* file.filename.lower().endswith('.csv')
Lower(c) == CASE c = "C" -> "c" [] c = "S" -> "s" [] c = "V" -> "v"
              [] c = "A" -> "a" [] OTHER -> c
LowerText(s) == [i \in 1..Len(s) |-> Lower(s[i])]
EndsWith(s, suf) ==
    /\ Len(s) >= Len(suf)
    /\ SubSeq(s, Len(s) - Len(suf) + 1, Len(s)) = suf
HasCsvExtension(f) == EndsWith(LowerText(f.s), <<".", "c", "s", "v">>)

Name(s) == [t |-> "str", s |-> s]
CsvNames == { Name(<<"a", ".", "c", "s", "v">>), Name(<<"A", ".", "C", "S", "V">>) }
Filenames == CsvNames \cup { None,
                                Name(<<>>),
                                Name(<<"a", ".", "t", "x", "t">>),
                                Name(<<"c", "s", "v">>) }

(***************************************************************************)
(* pd.read_csv(stream, nrows=MAX_ROWS, ...) on a stream that holds n data  *)
(* rows, read from position pos (a position counts the data rows already   *)
(* consumed).  The parser reads consecutive rows, so the rows of the table *)
(* are the input's rows lo..hi in input order (none when hi < lo).         *)
(***************************************************************************)
Rows(lo, hi) == [lo |-> lo, hi |-> hi]
NumRows(r) == Max(r.hi - r.lo + 1, 0)
\* (ReadRowsUncapped: the call without nrows)
ReadRowsUncapped(n, pos) == Rows(pos + 1, Max(n, pos))
ReadRows(n, pos) == Rows(pos + 1, pos + Min(MAX_ROWS, Max(n - pos, 0)))

Table(enc, pos, outcome) ==
    [t |-> "DataFrame", enc |-> enc, startPos |-> pos,
     faithful |-> (outcome = "ok" /\ pos = 0), rows |-> ReadRows(nRows, pos)]

Attempt(enc, pos, outcome) == [enc |-> enc, pos |-> pos, outcome |-> outcome]

\* file_storage.stream.seek(0), lines 20, 29 and 36
\* (SeekMissing: the stream left where it is)
SeekMissing(pos) == pos
SeekStart(pos) == 0
SeekRetry(pos) == 0
SeekLadder(pos) == 0

\* df.shape[0] == 0
\* (NeverEmpty: the test left out)
NeverEmpty(d) == FALSE
IsEmpty(d) == NumRows(d.rows) = 0

(***************************************************************************)
(* Idle values of the renderer's variables while a request is followed,    *)
(* and of the request's variables while the renderer is followed.          *)
(***************************************************************************)
EscIdle ==
    /\ col = None /\ val = None /\ headerText = <<>> /\ cellText = <<>>
WidthsIdle ==
    /\ landscape_mode = TRUE /\ plainLens = <<>>
    /\ total_len = 0 /\ col_widths = <<>>

(***************************************************************************)
(* convert: one POST /convert.                                             *)
(***************************************************************************)
Init ==
    /\ pc = "convert"
    /\ filename \in Filenames
    /\ parse \in Parses
    /\ nRows \in RowCounts
    /\ callerPos \in 0..MaxPos
    /\ streamPos = callerPos
    /\ attempts = <<>>
    /\ df = None
    /\ raised = None
    /\ renderCalls = 0
    /\ pdf_bytes = None
    /\ flashed = <<>>
    /\ response = None
    \* a request that never reaches the loader carries one stream only
    /\ (filename \notin CsvNames) =>
           /\ parse = [e \in Encodings |-> "ok"]
           /\ nRows = 1
           /\ callerPos = 0
    /\ EscIdle
    /\ WidthsIdle

Redirect == [kind |-> "redirect", to |-> "index", body |-> None]
Attachment(buf) == [kind |-> "attachment", to |-> "application/pdf", body |-> buf]

NoFile == IF filename = None THEN TRUE ELSE filename.s = <<>>

\* if not file or file.filename == '': flash, redirect
ConvertNoFile ==
    /\ pc = "convert"
    /\ NoFile
    /\ flashed' = Append(flashed, MsgChoose)
    /\ response' = Redirect
    /\ pc' = "done"
    /\ UNCHANGED <<filename, parse, nRows, callerPos, streamPos, attempts, df,
                   raised, renderCalls, pdf_bytes, escVars, widthVars>>

\* if not file.filename.lower().endswith('.csv'): flash, redirect
ConvertBadExtension ==
    /\ pc = "convert"
    /\ ~NoFile
    /\ ~HasCsvExtension(filename)
    /\ flashed' = Append(flashed, MsgOnlyCsv)
    /\ response' = Redirect
    /\ pc' = "done"
    /\ UNCHANGED <<filename, parse, nRows, callerPos, streamPos, attempts, df,
                   raised, renderCalls, pdf_bytes, escVars, widthVars>>

\* try: df = read_csv_safely(file, delimiter)
ConvertCallLoad ==
    /\ pc = "convert"
    /\ ~NoFile
    /\ HasCsvExtension(filename)
    /\ pc' = "read_csv_safely"
    /\ UNCHANGED <<filename, parse, nRows, callerPos, streamPos, attempts, df,
                   raised, renderCalls, pdf_bytes, flashed, response,
                   escVars, widthVars>>

(***************************************************************************)
(* read_csv_safely.  One pd.read_csv call: the stream is read from pos,    *)
(* and is left wherever the parser stopped.  The separator (line 22) is an *)
(* argument of every call alike; its effect is part of parse.              *)
(***************************************************************************)
ReadCsv(enc, pos, next_ok, next_decode, next_other) ==
    LET o == parse[Codec(enc)] IN
    /\ attempts' = Append(attempts, Attempt(enc, pos, o))
    /\ streamPos' \in 0..MaxPos
    /\ IF Succeeds(o)
          THEN /\ df' = Table(enc, pos, o)
               /\ pc' = next_ok
               /\ raised' = None
          ELSE /\ df' = None
               /\ pc' = IF o = "decode" THEN next_decode ELSE next_other
               /\ raised' = IF pc' = "load_raised"
                               THEN [attempt |-> Len(attempts'), kind |-> o]
                               ELSE None

\* lines 20-31: seek(0), the first attempt, and the choice of the handler
FirstAttempt ==
    /\ pc = "read_csv_safely"
    /\ ReadCsv("default", SeekStart(streamPos), "loaded", "retry", "ladder")
    /\ UNCHANGED <<filename, parse, nRows, callerPos, renderCalls, pdf_bytes,
                   flashed, response, escVars, widthVars>>

\* except UnicodeDecodeError: seek(0), one retry under latin-1; what it
\* raises leaves read_csv_safely
RetryLatin1 ==
    /\ pc = "retry"
    /\ ReadCsv("latin-1", SeekRetry(streamPos), "loaded", "load_raised", "load_raised")
    /\ UNCHANGED <<filename, parse, nRows, callerPos, renderCalls, pdf_bytes,
                   flashed, response, escVars, widthVars>>

\* except Exception: the next encoding of the ladder; break on success
LadderAttempt ==
    /\ pc = "ladder"
    /\ Len(attempts) <= Len(Ladder)
    /\ ReadCsv(Ladder[Len(attempts)], SeekLadder(streamPos), "loaded", "ladder", "ladder")
    /\ UNCHANGED <<filename, parse, nRows, callerPos, renderCalls, pdf_bytes,
                   flashed, response, escVars, widthVars>>

\* the attempt whose exception a bare `raise` in the outer handler re-raises
ReRaised(att) == 1

\* if df is None: raise
LadderExhausted ==
    /\ pc = "ladder"
    /\ Len(attempts) > Len(Ladder)
    /\ df = None
    /\ raised' = [attempt |-> ReRaised(attempts),
                  kind |-> attempts[ReRaised(attempts)].outcome]
    /\ pc' = "load_raised"
    /\ UNCHANGED <<filename, parse, nRows, callerPos, streamPos, attempts, df,
                   renderCalls, pdf_bytes, flashed, response, escVars, widthVars>>

(***************************************************************************)
(* convert, after read_csv_safely returned.                                *)
(***************************************************************************)
\* if df.shape[0] == 0: flash, redirect
ConvertEmpty ==
    /\ pc = "loaded"
    /\ IsEmpty(df)
    /\ flashed' = Append(flashed, MsgEmpty)
    /\ response' = Redirect
    /\ pc' = "done"
    /\ UNCHANGED <<filename, parse, nRows, callerPos, streamPos, attempts, df,
                   raised, renderCalls, pdf_bytes, escVars, widthVars>>

\* pdf_bytes = df_to_pdf_bytes(...): the buffer, complete and rewound
RenderReturns ==
    /\ pc = "loaded"
    /\ ~IsEmpty(df)
    /\ renderCalls' = renderCalls + 1
    /\ pdf_bytes' = [t |-> "BytesIO", complete |-> TRUE, pos |-> 0]
    /\ pc' = "send_file"
    /\ UNCHANGED <<filename, parse, nRows, callerPos, streamPos, attempts, df,
                   raised, flashed, response, escVars, widthVars>>

\* df_to_pdf_bytes raises (Paragraph or doc.build): nothing is assigned to
\* pdf_bytes and control passes to the except clause
\* (RenderRaisesKeepsBuffer: the half-written buffer is sent instead)
RenderRaisesKeepsBuffer ==
    /\ pc = "loaded"
    /\ ~IsEmpty(df)
    /\ renderCalls' = renderCalls + 1
    /\ pdf_bytes' = [t |-> "BytesIO", complete |-> FALSE, pos |-> 0]
    /\ pc' = "send_file"
    /\ UNCHANGED <<filename, parse, nRows, callerPos, streamPos, attempts, df,
                   raised, flashed, response, escVars, widthVars>>
RenderRaises ==
    /\ pc = "loaded"
    /\ ~IsEmpty(df)
    /\ renderCalls' = renderCalls + 1
    /\ pc' = "render_raised"
    /\ UNCHANGED <<filename, parse, nRows, callerPos, streamPos, attempts, df,
                   raised, pdf_bytes, flashed, response, escVars, widthVars>>

\* return send_file(pdf_bytes, as_attachment=True, ...)
SendFile ==
    /\ pc = "send_file"
    /\ response' = Attachment(pdf_bytes)
    /\ pc' = "done"
    /\ UNCHANGED <<filename, parse, nRows, callerPos, streamPos, attempts, df,
                   raised, renderCalls, pdf_bytes, flashed, escVars, widthVars>>

\* except Exception as e: flash, redirect
ConvertExcept ==
    /\ pc \in {"load_raised", "render_raised"}
    /\ flashed' = Append(flashed, MsgSorry)
    /\ response' = Redirect
    /\ pc' = "done"
    /\ UNCHANGED <<filename, parse, nRows, callerPos, streamPos, attempts, df,
                   raised, renderCalls, pdf_bytes, escVars, widthVars>>

Next ==
    \/ ConvertNoFile
    \/ ConvertBadExtension
    \/ ConvertCallLoad
    \/ FirstAttempt
    \/ RetryLatin1
    \/ LadderAttempt
    \/ LadderExhausted
    \/ ConvertEmpty
    \/ RenderReturns
    \/ RenderRaises
    \/ SendFile
    \/ ConvertExcept

Spec == Init /\ [][Next]_vars

(***************************************************************************)
(* df_to_pdf_bytes, lines 69-86: the markup of a header cell and of a data *)
(* cell.  A value of the table is a str, an int, a whole float or NaN.     *)
(***************************************************************************)
MaxTextLen == 3     \* longest data cell text
MaxColLen  == 1     \* longest column name
MaxInt     == 12    \* largest number in a cell

Alphabet == {"&", "<", ">", "\n", "a", ";"}
Texts(n) == UNION {[1..k -> Alphabet] : k \in 0..n}

StrVal(s)   == [t |-> "str", s |-> s, n |-> 0]
IntVal(n)   == [t |-> "int", s |-> <<>>, n |-> n]
FloatVal(n) == [t |-> "float", s |-> <<>>, n |-> n]
NaN         == [t |-> "nan", s |-> <<>>, n |-> 0]

ColumnNames == {StrVal(s) : s \in Texts(MaxColLen)}
CellValues  == {StrVal(s) : s \in Texts(MaxTextLen)}
                 \cup {IntVal(n) : n \in (-1)..MaxInt}
                 \cup {FloatVal(n) : n \in 0..1}
                 \cup {NaN}

\* df.fillna('')
Fillna(v) == IF v.t = "nan" THEN StrVal(<<>>) ELSE v

\* str(val)
DigitChar == <<"0", "1", "2", "3", "4", "5", "6", "7", "8", "9">>
RECURSIVE Digits(_)
Digits(n) == IF n < 10 THEN <<DigitChar[n + 1]>>
             ELSE Digits(n \div 10) \o <<DigitChar[(n % 10) + 1]>>
Str(v) == CASE v.t = "str"   -> v.s
            [] v.t = "int"   -> IF v.n < 0 THEN <<"-">> \o Digits(-v.n) ELSE Digits(v.n)
            [] v.t = "float" -> Digits(v.n) \o <<".", "0">>
            [] v.t = "nan"   -> <<"n", "a", "n">>

\* text.replace(old, new) for a one-character old
RECURSIVE Replace(_, _, _)
Replace(text, old, new) ==
    IF text = <<>> THEN <<>>
    ELSE (IF Head(text) = old THEN new ELSE <<Head(text)>>)
            \o Replace(Tail(text), old, new)

Amp == <<"&", "a", "m", "p", ";">>
Lt  == <<"&", "l", "t", ";">>
Gt  == <<"&", "g", "t", ";">>
Br  == <<"<", "b", "r", "/", ">">>

\* lines 81-84: '&', then '<', then '>', then newline
\* (EscapeNewlineFirst: the newline replaced before the others)
EscapeNewlineFirst(text) ==
    Replace(Replace(Replace(Replace(text, "\n", Br), "&", Amp), "<", Lt), ">", Gt)
Escape(text) ==
    Replace(Replace(Replace(Replace(text, "&", Amp), "<", Lt), ">", Gt), "\n", Br)

\* line 72: Paragraph(str(col), header_style)
\* (HeaderMarkupEscaped: the header escaped like a data cell)
HeaderMarkupEscaped(c) == Escape(Str(c))
HeaderMarkup(c) == Str(c)

\* lines 79-85: Paragraph(text, cell_style)
CellMarkup(v) == Escape(Str(v))

InitEscape ==
    /\ pc = "df_to_pdf_bytes"
    /\ col \in ColumnNames
    /\ val \in CellValues
    /\ headerText = <<>>
    /\ cellText = <<>>
    /\ filename = None /\ parse = [e \in Encodings |-> "ok"]
    /\ nRows = 1 /\ callerPos = 0 /\ streamPos = 0 /\ attempts = <<>>
    /\ df = None /\ raised = None /\ renderCalls = 0 /\ pdf_bytes = None
    /\ flashed = <<>> /\ response = None
    /\ WidthsIdle

\* df = df.fillna(''); headers = [Paragraph(str(col), ...) ...]
BuildHeaders ==
    /\ pc = "df_to_pdf_bytes"
    /\ val' = Fillna(val)
    /\ headerText' = HeaderMarkup(col)
    /\ pc' = "rows"
    /\ UNCHANGED <<col, cellText, filename, parse, nRows, callerPos, streamPos,
                   attempts, df, raised, renderCalls, pdf_bytes, flashed,
                   response, widthVars>>

\* for val in row.tolist(): text = str(val); escape; Paragraph(text, ...)
BuildRows ==
    /\ pc = "rows"
    /\ cellText' = CellMarkup(val)
    /\ pc' = "rows_built"
    /\ UNCHANGED <<col, val, headerText, filename, parse, nRows, callerPos,
                   streamPos, attempts, df, raised, renderCalls, pdf_bytes,
                   flashed, response, widthVars>>

NextEscape == BuildHeaders \/ BuildRows

SpecEscape == InitEscape /\ [][NextEscape]_vars

(***************************************************************************)
(* df_to_pdf_bytes, lines 49-52 and 91-95: the column widths.  A4 is       *)
(* 210 mm x 297 mm and a millimetre is 72/25.4 pt, so the page sides are   *)
(* 75600/127 pt and 106920/127 pt.  Lengths are kept exact: a page length  *)
(* is a numerator over PtDen, a column width a numerator over              *)
(* PtDen * total_len.                                                      *)
(***************************************************************************)
MaxCols      == 50  \* most columns of a table
MaxLong      == 2   \* columns whose header has the first of the two lengths
MaxHeaderLen == 9   \* longest header plain text

PtDen       == 127
A4WidthNum  == 75600
A4HeightNum == 106920
left  == 20
right == 20

\* page_size = landscape(A4) if landscape_mode else A4; page_size[0]
PageWidthNum(mode) == IF mode THEN A4HeightNum ELSE A4WidthNum

\* usable_width = page_size[0] - left - right
UsableNum(mode) == PageWidthNum(mode) - (left + right) * PtDen

RECURSIVE Sum(_)
Sum(s) == IF s = <<>> THEN 0 ELSE Head(s) + Sum(Tail(s))

\* header_lengths = [max(5, len(h.getPlainText())) for h in headers]
HeaderLengths(lens) == [i \in 1..Len(lens) |-> Max(5, lens[i])]

\* num_cols = max(1, len(headers))
\* total_len = sum(header_lengths) if sum(header_lengths) else num_cols
TotalLen(lens) ==
    LET total == Sum(HeaderLengths(lens)) IN
    IF total # 0 THEN total ELSE Max(1, Len(lens))

\* col_widths = [max(40, usable_width * (l / total_len)) for l in header_lengths]
WidthDen(total) == PtDen * total
\* (ColWidthsNoFloor: the proportional share without the max(40, ...))
ColWidthsNoFloor(mode, lens) ==
    LET header_lengths == HeaderLengths(lens)
        usable == UsableNum(mode)
    IN  [i \in 1..Len(lens) |-> usable * header_lengths[i]]
ColWidths(mode, lens) ==
    LET header_lengths == HeaderLengths(lens)
        usable == UsableNum(mode)
        floor == 40 * WidthDen(TotalLen(lens))
    IN  [i \in 1..Len(lens) |-> Max(floor, usable * header_lengths[i])]

HeaderPlainLens ==
    {[i \in 1..n |-> IF i <= k THEN a ELSE b] :
        n \in 0..MaxCols, k \in 0..MaxLong, a \in 0..MaxHeaderLen, b \in 0..MaxHeaderLen}

InitWidths ==
    /\ pc = "widths"
    /\ landscape_mode \in BOOLEAN
    /\ plainLens \in HeaderPlainLens
    /\ total_len = 0
    /\ col_widths = <<>>
    /\ filename = None /\ parse = [e \in Encodings |-> "ok"]
    /\ nRows = 1 /\ callerPos = 0 /\ streamPos = 0 /\ attempts = <<>>
    /\ df = None /\ raised = None /\ renderCalls = 0 /\ pdf_bytes = None
    /\ flashed = <<>> /\ response = None
    /\ EscIdle

ComputeWidths ==
    /\ pc = "widths"
    /\ total_len' = TotalLen(plainLens)
    /\ col_widths' = ColWidths(landscape_mode, plainLens)
    /\ pc' = "widths_done"
    /\ UNCHANGED <<landscape_mode, plainLens, filename, parse, nRows, callerPos,
                   streamPos, attempts, df, raised, renderCalls, pdf_bytes,
                   flashed, response, escVars>>

NextWidths == ComputeWidths

SpecWidths == InitWidths /\ [][NextWidths]_vars

(***************************************************************************)
(* read_csv_safely has returned a table / has raised.                      *)
(***************************************************************************)
LoadReturned == df # None
LoadRaised   == raised # None
LoadOver     == LoadReturned \/ LoadRaised
Last(s)      == s[Len(s)]

\* C2: every input that parses correctly under at least one of UTF-8,
\* UTF-16, cp1252 and Latin-1 makes read_csv_safely return a table, and the
\* table is the one of a correctly decoding attempt, whatever the earlier
\* attempts failed with.
C2_LoadRecoversEveryEncoding ==
    (LoadOver /\ \E e \in Encodings : parse[e] = "ok")
        => (LoadReturned /\ df.faithful)

Converted ==
    /\ df # None
    /\ NumRows(df.rows) >= 1
    /\ pdf_bytes # None

\* C5: the response of convert is the PDF attachment only when
\* read_csv_safely returned a table with at least one row and
\* df_to_pdf_bytes returned its complete buffer; in every other case it is
\* a redirect to the index page that carries no document bytes.
C5_AttachmentOnlyOnSuccess ==
    response # None =>
        /\ response.kind \in {"attachment", "redirect"}
        /\ response.kind = "attachment" =>
              /\ Converted
              /\ renderCalls = 1
              /\ pdf_bytes.complete
              /\ pdf_bytes.pos = 0
              /\ response.body = pdf_bytes
        /\ ~Converted => response = Redirect
        /\ response.kind = "redirect" => response.body = None
C5_Witness ==
    /\ pc = "done"
    /\ renderCalls = 1
    /\ response = Redirect
    /\ flashed = <<MsgSorry>>

\* C6: when the loaded table has zero data rows, df_to_pdf_bytes is never
\* called for the request, which ends with the "appears to be empty"
\* message (not the message of load and render failures) and a redirect.
C6_EmptyNeverRendered ==
    (df # None /\ NumRows(df.rows) = 0) =>
        /\ renderCalls = 0
        /\ pdf_bytes = None
        /\ pc \in {"loaded", "done"}
        /\ pc = "done" =>
              /\ flashed = <<MsgEmpty>>
              /\ response = Redirect
        /\ MsgEmpty # MsgSorry
C6_Witness ==
    /\ pc = "done"
    /\ df # None
    /\ NumRows(df.rows) = 0
    /\ flashed = <<MsgEmpty>>

\* C7: when the first attempt ends with a decode failure and the content
\* parses under Latin-1, read_csv_safely returns the table of the Latin-1
\* attempt, reached by exactly one retry made on the rewound stream.
C7_Latin1Fallback ==
    (/\ LoadOver
     /\ attempts[1].outcome = "decode"
     /\ Succeeds(parse["latin-1"]))
        => /\ LoadReturned
           /\ ~LoadRaised
           /\ attempts = << Attempt("default", 0, "decode"),
                            Attempt("latin-1", 0, parse["latin-1"]) >>
           /\ df = Table("latin-1", 0, parse["latin-1"])
           /\ df.startPos = 0
C7_Witness ==
    /\ LoadReturned
    /\ callerPos > 0
    /\ Len(attempts) = 2
    /\ attempts[1].outcome = "decode"
    /\ df.enc = "latin-1"

\* C8: when the first attempt fails with something other than a decode
\* failure, the retries are made in the order utf-8, utf-16, cp1252,
\* latin-1, none after the first that succeeds, whose table is the result;
\* when all four fail the error raised is the one of the first attempt.
C8_LadderOrder ==
    (attempts # <<>> /\ attempts[1].outcome = "other") =>
        /\ Len(attempts) <= 5
        /\ \A i \in 2..Len(attempts) :
              attempts[i].enc = <<"utf-8", "utf-16", "cp1252", "latin-1">>[i - 1]
        /\ \A i \in 1..(Len(attempts) - 1) : ~Succeeds(attempts[i].outcome)
        /\ LoadReturned =>
              /\ Len(attempts) > 1
              /\ Succeeds(Last(attempts).outcome)
              /\ df = Table(Last(attempts).enc, Last(attempts).pos, Last(attempts).outcome)
              /\ ~LoadRaised
        /\ LoadRaised =>
              /\ Len(attempts) = 5
              /\ \A i \in 1..5 : ~Succeeds(attempts[i].outcome)
              /\ raised = [attempt |-> 1, kind |-> attempts[1].outcome]
              /\ ~LoadReturned
        /\ (pc = "ladder" /\ Len(attempts) > 1) => ~Succeeds(Last(attempts).outcome)
C8_Witness ==
    /\ LoadReturned
    /\ attempts[1].outcome = "other"
    /\ Len(attempts) = 4
    /\ df.enc = "cp1252"
    /\ attempts[3].outcome = "decode"

\* C9: every parse attempt of read_csv_safely starts with the stream at
\* position 0, wherever the caller or a failed attempt left it, and the
\* stream's content is never changed.
C9_RewoundBeforeEachAttempt ==
    [][ /\ \A i \in DOMAIN attempts' : attempts'[i].pos = 0
        /\ parse' = parse
        /\ nRows' = nRows ]_vars
C9_Witness ==
    /\ callerPos > 0
    /\ streamPos > 0
    /\ Len(attempts) = 5
    /\ pc = "ladder"

(***************************************************************************)
(* df_to_pdf_bytes: the claims about markup and widths.                    *)
(***************************************************************************)
At(out, i, pat) ==
    /\ i >= 1
    /\ i + Len(pat) - 1 <= Len(out)
    /\ SubSeq(out, i, i + Len(pat) - 1) = pat
Count(text, c) == Cardinality({i \in 1..Len(text) : text[i] = c})
CountAt(out, pat) == Cardinality({i \in 1..Len(out) : At(out, i, pat)})

\* C4: in the markup of a data cell every '&' starts '&amp;', '&lt;' or
\* '&gt;', every '<' and '>' belongs to a '<br/>', there is no newline, and
\* there is exactly one '<br/>' for each newline of the cell's text (the
\* marker is not itself escaped).
C4_CellMarkupEscaped ==
    pc = "rows_built" =>
        LET text == Str(val)
            out  == cellText
        IN  /\ \A i \in 1..Len(out) :
                  /\ out[i] = "&" => (At(out, i, Amp) \/ At(out, i, Lt) \/ At(out, i, Gt))
                  /\ out[i] = "<" => At(out, i, Br)
                  /\ out[i] = ">" => At(out, i - 4, Br)
                  /\ out[i] # "\n"
            /\ CountAt(out, Br) = Count(text, "\n")
            /\ Count(out, "&") = Count(text, "&") + Count(text, "<") + Count(text, ">")
C4_Witness ==
    /\ pc = "rows_built"
    /\ val = StrVal(<<"&", "\n", "<">>)
    /\ cellText = Amp \o Br \o Lt

Special(text) == \E i \in 1..Len(text) : text[i] \in {"&", "<", ">"}

\* C10: a column name reaches the header cell's markup unchanged, with
\* its '&', '<' and '>' raw, while the same text in a data cell is escaped.
C10_HeaderNotEscaped ==
    pc \in {"rows", "rows_built"} =>
        /\ headerText = Str(col)
        /\ \A c \in {"&", "<", ">"} : Count(headerText, c) = Count(Str(col), c)
        /\ (pc = "rows_built" /\ Str(val) = Str(col) /\ Special(Str(col))) =>
              /\ cellText # headerText
              /\ \A i \in 1..Len(cellText) :
                    /\ cellText[i] = "&" =>
                          (At(cellText, i, Amp) \/ At(cellText, i, Lt) \/ At(cellText, i, Gt))
                    /\ cellText[i] = "<" => At(cellText, i, Br)
                    /\ cellText[i] = ">" => At(cellText, i - 4, Br)
C10_Witness ==
    /\ pc = "rows_built"
    /\ col = StrVal(<<"<">>)
    /\ val = col
    /\ headerText = <<"<">>
    /\ cellText = Lt

\* C1 as stated: for 1 to 50 columns every width is at least 40pt and the
\* widths sum to the usable page width.
C1_WidthsSumToUsable ==
    (pc = "widths_done" /\ Len(plainLens) \in 1..50) =>
        /\ \A i \in 1..Len(col_widths) : col_widths[i] >= 40 * WidthDen(total_len)
        /\ Sum(col_widths) = UsableNum(landscape_mode) * total_len

Share(i) == UsableNum(landscape_mode) * Max(5, plainLens[i])

\* C1 as amended: for one column or more every width is
\* max(40, usable * weight / total) with weight max(5, header length), so
\* at least 40pt; the widths sum to no less than the usable page width, and
\* to exactly the usable width when, and only when, no column's
\* proportional share is below 40pt.
C1_WidthsAtLeastUsable ==
    (pc = "widths_done" /\ Len(plainLens) >= 1) =>
        LET floor == 40 * PtDen * total_len IN
        /\ Len(col_widths) = Len(plainLens)
        /\ total_len = Sum([i \in 1..Len(plainLens) |-> Max(5, plainLens[i])])
        /\ \A i \in 1..Len(col_widths) :
              /\ col_widths[i] >= floor
              /\ col_widths[i] = Max(floor, Share(i))
        /\ Sum(col_widths) >= UsableNum(landscape_mode) * total_len
        /\ (Sum(col_widths) = UsableNum(landscape_mode) * total_len)
              <=> (\A i \in 1..Len(plainLens) : Share(i) >= floor)
C1_Witness ==
    /\ pc = "widths_done"
    /\ Len(plainLens) >= 2
    /\ \E i \in 1..Len(col_widths) : col_widths[i] > Share(i)
    /\ \E i \in 1..Len(col_widths) : col_widths[i] > 40 * PtDen * total_len
    /\ Sum(col_widths) > UsableNum(landscape_mode) * total_len

====
